---- MODULE Spec2Model ----
(***************************************************************************)
(* Interaction model of the retro desktop shell: MacWindow (drag, resize,  *)
(* minimize / maximize), DesktopIcon (drag with snap-to-grid, click        *)
(* disambiguation), the snapToGrid function, the desktop's z-order and the *)
(* prompt optimizer's request to the remote optimize endpoint.             *)
(***************************************************************************)
EXTENDS Integers, Sequences, FiniteSets, TLC

(* ------------------------------------------------------------------ *)
(* Program constants                                                  *)
(* ------------------------------------------------------------------ *)
MENU_BAR_HEIGHT == 42
minWidth == 320
minHeight == 200
DRAG_MARGIN == 100
MOBILE_SIDE_MARGIN == 32
MOBILE_VERTICAL_MARGIN == 48
CENTER_MIN_X == 8
GRID_SIZE_X == 90
GRID_SIZE_Y == 84
GRID_OFFSET_X == 8
GRID_OFFSET_Y == 8
FOOTER_HEIGHT == 40

(* ------------------------------------------------------------------ *)
(* Bounds of the model                                                *)
(* ------------------------------------------------------------------ *)
\* number of events in one behaviour: a minimize / maximize click or a viewport
\* event counts 1, a pointer-down (which opens a session) counts 2; pointer
\* moves and pointer-ups are not counted
MaxEvents == 4
\* number of pointer gestures (pointer-down .. click) on the icon in one behaviour
MaxIconGestures == 3
\* cells of the grid covered by the arguments snapToGrid is applied to
MaxCells == 9
\* windows the desktop can open, and focus / open events in one behaviour
MaxWindows == 3
MaxFocusEvents == 4
\* characters of a prompt typed into the optimizer, and optimizer events
\* (edits, clicks, responses) in one behaviour
MaxPromptLen == 2
MaxOptimizerEvents == 6

StepX == 200
StepY == 120

Max(a, b) == IF a >= b THEN a ELSE b
Min(a, b) == IF a <= b THEN a ELSE b

\* pointer coordinates of pointer-down, and of pointer-move / pointer-up
DownXs == {StepX}
DownYs == {StepY}
\* (the pointer-down point, and one step up-left and down-right of it)
PointerPoints == {<<StepX, StepY>>, <<0, 0>>, <<2 * StepX, 2 * StepY>>}
\* viewport sizes (window.innerWidth, window.innerHeight)
ViewWidths == {DRAG_MARGIN + StepX, DRAG_MARGIN + 2 * StepX}
ViewHeights == {DRAG_MARGIN + MENU_BAR_HEIGHT + StepY}
\* content-driven (intrinsic) size of a window whose size was never set
IntrinsicSizes == {<<minWidth - 70, minHeight - 50>>, <<minWidth + 80, minHeight + 40>>}
\* initialPosition props: the default {0,0} and an explicit one
InitialPositions == {[x |-> 0, y |-> 0], [x |-> StepX, y |-> MENU_BAR_HEIGHT + StepY]}
Directions == {"n", "s", "e", "w", "ne", "nw", "se", "sw"}

VARIABLES
  \* MacWindow props
  draggable, resizable, canMinimize, canMaximize,
  \* MacWindow state (useState / useRef)
  isMobile, position, size, isDragging, isResizing, isMinimized, isMaximized,
  preMaximizeState, dragOffset, resizeStart,
  \* isMobile as captured by the memoized handleMouseDown / handleResizeStart
  mouseDownIsMobile, resizeStartIsMobile,
  \* document listeners registered by the window's sessions, in order
  listeners,
  \* whether the last handler that ran called onFocus
  focusNotified,
  \* window.innerWidth / window.innerHeight
  innerWidth, innerHeight,
  \* bookkeeping of the exploration: events used so far
  events,
  \* history: a maximize directly followed by a restore
  roundTrip,
  \* whether the MacWindow is mounted
  mounted,
  \* history: the pointer of the document mousemove event that just ran
  lastMove,
  \* history: whether the event that just ran was a pointer-down, and where
  lastDown,
  \* DesktopIcon props: draggable, and whether initialPosition is given
  iconDraggable, hasInitialPosition,
  \* DesktopIcon state (useState / useRef)
  iconPosition, dragPosition, snapPreview, iconIsDragging, hasMoved,
  iconDragOffset, clickTimeout,
  \* number of icon drag sessions whose document listeners are registered
  iconListeners,
  \* number of live setTimeout timers of the icon
  pendingTimers,
  \* the pointer: where it is, and where it stands in a gesture on the icon
  pointerAt, iconPointer, movedInGesture,
  \* observed: onClick / onDoubleClick calls, click events by kind, gestures
  singleClicks, doubleClicks, clickCandidates, movedClicks, iconGestures,
  \* snapToGrid applied once and twice to an argument
  snapArg, snapOnce, snapTwice, snapStage,
  \* the desktop: open windows, the zIndex prop of each, the z-order counter
  openWindows, zIndexOf, topZ,
  \* history: every zIndex ever assigned, the window focused last
  everAssigned, lastFocused,
  \* PromptOptimizerContent state (useState)
  inputPrompt, outputPrompt, selectedType, isProcessing, error,
  \* optimize requests sent and not yet answered
  inFlight,
  \* history: handleClear runs so far, and who wrote outputPrompt last
  clears, outputWriter,
  \* bookkeeping of the exploration: optimizer events used so far
  optimizerEvents

windowVars == <<draggable, resizable, canMinimize, canMaximize, isMobile, position,
                size, isDragging, isResizing, isMinimized, isMaximized,
                preMaximizeState, dragOffset, resizeStart, mouseDownIsMobile,
                resizeStartIsMobile, listeners, focusNotified, events, roundTrip,
                mounted, lastMove, lastDown>>
viewportVars == <<innerWidth, innerHeight>>

iconVars == <<iconDraggable, hasInitialPosition, iconPosition, dragPosition,
              snapPreview, iconIsDragging, hasMoved, iconDragOffset, clickTimeout,
              iconListeners, pendingTimers, pointerAt, iconPointer, movedInGesture,
              singleClicks, doubleClicks, clickCandidates, movedClicks, iconGestures>>

snapVars == <<snapArg, snapOnce, snapTwice, snapStage>>
deskVars == <<openWindows, zIndexOf, topZ, everAssigned, lastFocused>>

optimizerVars == <<inputPrompt, outputPrompt, selectedType, isProcessing, error,
                   inFlight, clears, outputWriter, optimizerEvents>>

vars == <<windowVars, viewportVars, iconVars, snapVars, deskVars, optimizerVars>>

(* ------------------------------------------------------------------ *)
(* MacWindow                                                          *)
(* ------------------------------------------------------------------ *)
NoSize == [width |-> 0, height |-> 0]
NoTrip == [stage |-> 0, position |-> [x |-> 0, y |-> 0], size |-> NoSize]
NoMove == <<>>

HasE(direction) == direction \in {"e", "ne", "se"}
HasW(direction) == direction \in {"w", "nw", "sw"}
HasS(direction) == direction \in {"s", "se", "sw"}
HasN(direction) == direction \in {"n", "ne", "nw"}

\* style top of a draggable window in normal viewport mode
EffectiveTop == IF isMaximized THEN MENU_BAR_HEIGHT ELSE position.y

\* getBoundingClientRect() of a resizable, non-maximized window in normal mode:
\* the stored size when set, the content size otherwise, under the CSS minimum
RectWidth(intrinsicWidth) ==
  Max(minWidth, IF size.width > 0 THEN size.width ELSE intrinsicWidth)
RectHeight(intrinsicHeight) ==
  Max(minHeight, IF size.height > 0 THEN size.height ELSE intrinsicHeight)

\* the position the centering effect computes; in compact mode the window is
\* 100vw - 32px wide and 100vh - (MENU_BAR_HEIGHT + 48)px high
CenteredPosition ==
  LET offsetWidth == innerWidth - MOBILE_SIDE_MARGIN
      offsetHeight == innerHeight - (MENU_BAR_HEIGHT + MOBILE_VERTICAL_MARGIN)
      centerX == (innerWidth - offsetWidth) \div 2
      centerY == (innerHeight - offsetHeight) \div 2
  IN [x |-> Max(CENTER_MIN_X, centerX), y |-> Max(MENU_BAR_HEIGHT + 8, centerY)]

\* drag session, handleMouseMove: the clamped position
DragClampX(newX) == Max(0, Min(newX, innerWidth - DRAG_MARGIN))
DragClampY(newY) == Max(MENU_BAR_HEIGHT, Min(newY, innerHeight - DRAG_MARGIN))
DragMove(clientX, clientY) ==
  [x |-> DragClampX(clientX - dragOffset.x), y |-> DragClampY(clientY - dragOffset.y)]

\* resize session, handleMouseMove: horizontal and vertical rules
\* (variant: the east rule without the minimum)
ResizeEast_NoMinimum(startWidth, deltaX) == startWidth + deltaX
ResizeEast(startWidth, deltaX) == Max(minWidth, startWidth + deltaX)
ResizeSouth(startHeight, deltaY) == Max(minHeight, startHeight + deltaY)
WestAccepted(startWidth, deltaX) == startWidth - deltaX >= minWidth
NorthAccepted(startHeight, posY, deltaY) ==
  startHeight - deltaY >= minHeight /\ posY + deltaY >= MENU_BAR_HEIGHT

ResizeMove(direction, clientX, clientY) ==
  LET deltaX == clientX - resizeStart.x
      deltaY == clientY - resizeStart.y
      west == HasW(direction) /\ WestAccepted(resizeStart.width, deltaX)
      north == HasN(direction)
               /\ NorthAccepted(resizeStart.height, resizeStart.posY, deltaY)
      newWidth == IF HasE(direction) THEN ResizeEast(resizeStart.width, deltaX)
                  ELSE IF west THEN resizeStart.width - deltaX
                  ELSE resizeStart.width
      newX == IF west THEN resizeStart.posX + deltaX ELSE resizeStart.posX
      newHeight == IF HasS(direction) THEN ResizeSouth(resizeStart.height, deltaY)
                   ELSE IF north THEN resizeStart.height - deltaY
                   ELSE resizeStart.height
      newY == IF north THEN resizeStart.posY + deltaY ELSE resizeStart.posY
  IN [size |-> [width |-> newWidth, height |-> newHeight],
      position |-> [x |-> newX, y |-> newY]]

\* index of the last registered resize session, 0 when there is none
LastResize ==
  LET idx == {i \in 1..Len(listeners) : listeners[i].kind = "resize"}
  IN IF idx = {} THEN 0 ELSE CHOOSE i \in idx : \A j \in idx : j <= i

WindowInit ==
  /\ draggable \in BOOLEAN
  /\ resizable \in BOOLEAN
  /\ canMinimize \in BOOLEAN
  /\ canMaximize \in BOOLEAN
  /\ isMobile \in BOOLEAN
  /\ \E initialPosition \in InitialPositions :
       \* mounted in compact mode, a draggable window is centered by the effect
       /\ position = IF isMobile /\ draggable THEN CenteredPosition ELSE initialPosition
       /\ preMaximizeState = [position |-> initialPosition, size |-> NoSize, wasSet |-> FALSE]
  /\ size = NoSize
  /\ isDragging = FALSE
  /\ isResizing = "null"
  /\ isMinimized = FALSE
  /\ isMaximized = FALSE
  /\ dragOffset = [x |-> 0, y |-> 0]
  /\ resizeStart = [x |-> 0, y |-> 0, width |-> 0, height |-> 0, posX |-> 0, posY |-> 0]
  /\ mouseDownIsMobile = isMobile
  /\ resizeStartIsMobile = isMobile
  /\ listeners = <<>>
  /\ focusNotified = FALSE
  /\ events = 0
  /\ roundTrip = NoTrip
  /\ mounted = TRUE
  /\ lastMove = NoMove
  /\ lastDown = "none"

ViewportInit ==
  /\ innerWidth \in ViewWidths
  /\ innerHeight \in ViewHeights

propVars == <<draggable, resizable, canMinimize, canMaximize>>

\* title bar onMouseDown
handleMouseDown(clientX, clientY) ==
  /\ IF ~draggable \/ mouseDownIsMobile
     THEN /\ focusNotified' = FALSE
          /\ UNCHANGED <<isDragging, dragOffset, listeners>>
     ELSE /\ focusNotified' = TRUE
          /\ isDragging' = TRUE
          /\ dragOffset' = [x |-> clientX - position.x, y |-> clientY - position.y]
          /\ listeners' = Append(listeners, [kind |-> "drag", direction |-> "null"])
  /\ UNCHANGED <<propVars, isMobile, position, size, isResizing, isMinimized,
                 isMaximized, preMaximizeState, resizeStart, mouseDownIsMobile,
                 resizeStartIsMobile>>

\* onMouseDown of one of the eight resize handles; the handles are rendered only
\* when resizable && !isMinimized && !isMaximized && !isMobile
handleResizeStart(clientX, clientY, direction, intrinsicWidth, intrinsicHeight) ==
  /\ resizable /\ ~isMinimized /\ ~isMaximized /\ ~isMobile
  /\ IF ~resizable \/ isMaximized \/ resizeStartIsMobile
     THEN /\ focusNotified' = FALSE
          /\ UNCHANGED <<isResizing, resizeStart, listeners>>
     ELSE /\ focusNotified' = TRUE
          /\ isResizing' = direction
          /\ resizeStart' = [x |-> clientX, y |-> clientY,
                             width |-> RectWidth(intrinsicWidth),
                             height |-> RectHeight(intrinsicHeight),
                             posX |-> position.x, posY |-> position.y]
          /\ listeners' = Append(listeners, [kind |-> "resize", direction |-> direction])
  /\ UNCHANGED <<propVars, isMobile, position, size, isDragging, isMinimized,
                 isMaximized, preMaximizeState, dragOffset, mouseDownIsMobile,
                 resizeStartIsMobile>>

\* a document mousemove event: every registered handleMouseMove runs in
\* registration order and the last setPosition / setSize of the batch wins;
\* the new position object makes both memoized handlers capture isMobile anew
documentMouseMove(clientX, clientY) ==
  /\ listeners # <<>>
  /\ LET last == listeners[Len(listeners)]
         lr == LastResize
     IN /\ position' = IF last.kind = "drag" THEN DragMove(clientX, clientY)
                       ELSE ResizeMove(last.direction, clientX, clientY).position
        /\ size' = IF lr = 0 THEN size
                   ELSE ResizeMove(listeners[lr].direction, clientX, clientY).size
  /\ mouseDownIsMobile' = isMobile
  /\ resizeStartIsMobile' = isMobile
  /\ UNCHANGED <<propVars, isMobile, isDragging, isResizing, isMinimized, isMaximized,
                 preMaximizeState, dragOffset, resizeStart, listeners, focusNotified>>

\* a document mouseup event: every registered handleMouseUp runs and removes
\* its session's two listeners
documentMouseUp ==
  /\ listeners # <<>>
  /\ isDragging' = IF \E i \in 1..Len(listeners) : listeners[i].kind = "drag"
                   THEN FALSE ELSE isDragging
  /\ isResizing' = IF LastResize # 0 THEN "null" ELSE isResizing
  /\ listeners' = <<>>
  /\ UNCHANGED <<propVars, isMobile, position, size, isMinimized, isMaximized,
                 preMaximizeState, dragOffset, resizeStart, mouseDownIsMobile,
                 resizeStartIsMobile, focusNotified>>

\* (variant: minimize leaves the maximized flag alone)
handleMinimize_KeepMaximized ==
  /\ canMinimize
  /\ isMinimized' = ~isMinimized
  /\ focusNotified' = FALSE
  /\ UNCHANGED <<propVars, isMobile, position, size, isDragging, isResizing,
                 isMaximized, preMaximizeState, dragOffset, resizeStart,
                 mouseDownIsMobile, resizeStartIsMobile, listeners>>

\* onClick of the minimize button (rendered when canMinimize)
handleMinimize ==
  /\ canMinimize
  /\ isMinimized' = ~isMinimized
  /\ isMaximized' = IF isMaximized THEN FALSE ELSE isMaximized
  /\ resizeStartIsMobile' = IF isMaximized THEN isMobile ELSE resizeStartIsMobile
  /\ focusNotified' = FALSE
  /\ UNCHANGED <<propVars, isMobile, position, size, isDragging, isResizing,
                 preMaximizeState, dragOffset, resizeStart, mouseDownIsMobile,
                 listeners>>

\* (variant: restore puts the size back but leaves the position anchored)
handleMaximize_RestoreSizeOnly ==
  /\ canMaximize
  /\ IF ~isMaximized
     THEN /\ preMaximizeState' = [position |-> position, size |-> size, wasSet |-> TRUE]
          /\ position' = [x |-> 0, y |-> MENU_BAR_HEIGHT]
          /\ size' = size
          /\ mouseDownIsMobile' = isMobile
     ELSE IF preMaximizeState.wasSet
     THEN /\ size' = preMaximizeState.size
          /\ UNCHANGED <<position, preMaximizeState, mouseDownIsMobile>>
     ELSE UNCHANGED <<position, size, preMaximizeState, mouseDownIsMobile>>
  /\ isMaximized' = ~isMaximized
  /\ isMinimized' = IF isMinimized THEN FALSE ELSE isMinimized
  /\ resizeStartIsMobile' = isMobile
  /\ focusNotified' = FALSE
  /\ UNCHANGED <<propVars, isMobile, isDragging, isResizing, dragOffset, resizeStart,
                 listeners>>

\* onClick of the maximize / restore button (rendered when canMaximize)
handleMaximize ==
  /\ canMaximize
  /\ IF ~isMaximized
     THEN /\ preMaximizeState' = [position |-> position, size |-> size, wasSet |-> TRUE]
          /\ position' = [x |-> 0, y |-> MENU_BAR_HEIGHT]
          /\ size' = size
          /\ mouseDownIsMobile' = isMobile
     ELSE IF preMaximizeState.wasSet
     THEN /\ position' = preMaximizeState.position
          /\ size' = preMaximizeState.size
          /\ mouseDownIsMobile' = isMobile
          /\ UNCHANGED preMaximizeState
     ELSE UNCHANGED <<position, size, preMaximizeState, mouseDownIsMobile>>
  /\ isMaximized' = ~isMaximized
  /\ isMinimized' = IF isMinimized THEN FALSE ELSE isMinimized
  /\ resizeStartIsMobile' = isMobile
  /\ focusNotified' = FALSE
  /\ UNCHANGED <<propVars, isMobile, isDragging, isResizing, dragOffset, resizeStart,
                 listeners>>

\* (variant: the centering effect does not run on a change of class)
viewportClassChange_NoCentering ==
  /\ isMobile' = ~isMobile
  /\ UNCHANGED <<position, mouseDownIsMobile, resizeStartIsMobile>>
  /\ UNCHANGED <<propVars, size, isDragging, isResizing, isMinimized, isMaximized,
                 preMaximizeState, dragOffset, resizeStart, listeners, focusNotified>>

\* the viewport-class signal flips; the centering effect runs when the window
\* is draggable and the new class is compact
viewportClassChange ==
  /\ isMobile' = ~isMobile
  /\ IF isMobile' /\ draggable
     THEN /\ position' = CenteredPosition
          /\ mouseDownIsMobile' = isMobile'
          /\ resizeStartIsMobile' = isMobile'
     ELSE UNCHANGED <<position, mouseDownIsMobile, resizeStartIsMobile>>
  /\ UNCHANGED <<propVars, size, isDragging, isResizing, isMinimized, isMaximized,
                 preMaximizeState, dragOffset, resizeStart, listeners, focusNotified>>

\* the browser window is resized
viewportResize(width, height) ==
  /\ <<width, height>> # <<innerWidth, innerHeight>>
  /\ innerWidth' = width
  /\ innerHeight' = height

(* ------------------------------------------------------------------ *)
(* Events reaching the window                                         *)
(* ------------------------------------------------------------------ *)
TitleBarMouseDown ==
  \E clientX \in DownXs, clientY \in DownYs :
    /\ mounted
    /\ events + 2 <= MaxEvents
    /\ handleMouseDown(clientX, clientY)
    /\ events' = events + 2
    /\ roundTrip' = NoTrip
    /\ lastMove' = NoMove
    /\ lastDown' = "title"
    /\ UNCHANGED mounted
    /\ UNCHANGED viewportVars
    /\ UNCHANGED <<iconVars, snapVars, deskVars, optimizerVars>>

ResizeHandleMouseDown ==
  \E clientX \in DownXs, clientY \in DownYs, direction \in Directions,
     intrinsic \in IntrinsicSizes :
    /\ mounted
    /\ events + 2 <= MaxEvents
    /\ handleResizeStart(clientX, clientY, direction, intrinsic[1], intrinsic[2])
    /\ events' = events + 2
    /\ roundTrip' = NoTrip
    /\ lastMove' = NoMove
    /\ lastDown' = "handle"
    /\ UNCHANGED mounted
    /\ UNCHANGED viewportVars
    /\ UNCHANGED <<iconVars, snapVars, deskVars, optimizerVars>>

MouseMove ==
  \E pointer \in PointerPoints :
    /\ mounted
    /\ documentMouseMove(pointer[1], pointer[2])
    /\ roundTrip' = NoTrip
    /\ lastMove' = pointer
    /\ lastDown' = "none"
    /\ UNCHANGED mounted
    /\ UNCHANGED <<events, viewportVars>>
    /\ UNCHANGED <<iconVars, snapVars, deskVars, optimizerVars>>

MouseUp ==
  /\ documentMouseUp
  /\ roundTrip' = NoTrip
  /\ lastMove' = NoMove
  /\ lastDown' = "none"
  /\ UNCHANGED mounted
  /\ UNCHANGED <<events, viewportVars>>
  /\ UNCHANGED <<iconVars, snapVars, deskVars, optimizerVars>>

MinimizeClick ==
  /\ mounted
  /\ events < MaxEvents
  /\ handleMinimize
  /\ events' = events + 1
  /\ roundTrip' = NoTrip
  /\ lastMove' = NoMove
  /\ lastDown' = "none"
  /\ UNCHANGED mounted
  /\ UNCHANGED viewportVars
  /\ UNCHANGED <<iconVars, snapVars, deskVars, optimizerVars>>

MaximizeClick ==
  /\ mounted
  /\ events < MaxEvents
  /\ handleMaximize
  /\ events' = events + 1
  /\ roundTrip' = IF ~isMaximized
                  THEN [stage |-> 1, position |-> position, size |-> size]
                  ELSE IF roundTrip.stage = 1
                  THEN [roundTrip EXCEPT !.stage = 2]
                  ELSE NoTrip
  /\ lastMove' = NoMove
  /\ lastDown' = "none"
  /\ UNCHANGED mounted
  /\ UNCHANGED viewportVars
  /\ UNCHANGED <<iconVars, snapVars, deskVars, optimizerVars>>

ViewportClassChange ==
  /\ mounted
  /\ events < MaxEvents
  /\ viewportClassChange
  /\ events' = events + 1
  /\ roundTrip' = NoTrip
  /\ lastMove' = NoMove
  /\ lastDown' = "none"
  /\ UNCHANGED mounted
  /\ UNCHANGED viewportVars
  /\ UNCHANGED <<iconVars, snapVars, deskVars, optimizerVars>>

ViewportResize ==
  \E width \in ViewWidths, height \in ViewHeights :
    /\ events < MaxEvents
    /\ viewportResize(width, height)
    /\ events' = events + 1
    /\ roundTrip' = NoTrip
    /\ lastMove' = NoMove
    /\ lastDown' = "none"
    /\ UNCHANGED mounted
    /\ UNCHANGED <<propVars, isMobile, position, size, isDragging, isResizing,
                   isMinimized, isMaximized, preMaximizeState, dragOffset,
                   resizeStart, mouseDownIsMobile, resizeStartIsMobile, listeners,
                   focusNotified>>
    /\ UNCHANGED <<iconVars, snapVars, deskVars, optimizerVars>>

\* the parent removes the MacWindow from the tree; the component registers no
\* cleanup, so the document listeners of its sessions stay registered
unmount ==
  /\ mounted
  /\ mounted' = FALSE
  /\ UNCHANGED <<propVars, isMobile, position, size, isDragging, isResizing,
                 isMinimized, isMaximized, preMaximizeState, dragOffset,
                 resizeStart, mouseDownIsMobile, resizeStartIsMobile, listeners,
                 focusNotified>>

Unmount ==
  /\ unmount
  /\ roundTrip' = NoTrip
  /\ lastMove' = NoMove
  /\ lastDown' = "none"
  /\ UNCHANGED <<events, viewportVars>>
  /\ UNCHANGED <<iconVars, snapVars, deskVars, optimizerVars>>

WindowNext ==
  \/ TitleBarMouseDown
  \/ ResizeHandleMouseDown
  \/ MouseMove
  \/ MouseUp
  \/ MinimizeClick
  \/ MaximizeClick
  \/ ViewportClassChange
  \/ ViewportResize
  \/ Unmount

(* ------------------------------------------------------------------ *)
(* snapToGrid and DesktopIcon                                         *)
(* ------------------------------------------------------------------ *)
\* Math.round of the quotient num / den (den > 0): floor(num / den + 1/2)
MathRound(num, den) == (2 * num + den) \div (2 * den)

\* (variant: the x cell is scaled back with the height of a cell)
snapToGrid_SwappedCell(x, y) ==
  LET gridX == MathRound(x - GRID_OFFSET_X, GRID_SIZE_X)
      gridY == MathRound(y - GRID_OFFSET_Y, GRID_SIZE_Y)
  IN [x |-> Max(0, gridX) * GRID_SIZE_Y + GRID_OFFSET_X,
      y |-> Max(0, gridY) * GRID_SIZE_Y + GRID_OFFSET_Y]

snapToGrid(x, y) ==
  LET gridX == MathRound(x - GRID_OFFSET_X, GRID_SIZE_X)
      gridY == MathRound(y - GRID_OFFSET_Y, GRID_SIZE_Y)
  IN [x |-> Max(0, gridX) * GRID_SIZE_X + GRID_OFFSET_X,
      y |-> Max(0, gridY) * GRID_SIZE_Y + GRID_OFFSET_Y]

\* viewport sizes the icon is exercised in: one whose clamp rectangle ends
\* past the middle of a row of cells, one whose rectangle ends on a row
IconViewports == {<<300, 262>>, <<380, 300>>}
\* initialPosition props, before the snap
IconInitialPositions == {[x |-> 20, y |-> -30], [x |-> 150, y |-> 100]}
\* pointer positions of pointer-down and pointer-move events
IconPointerPoints == {<<40, 40>>, <<160, 130>>, <<400, 290>>}

\* the point the pointer position maps to under the current drag offset
IconDragPoint ==
  [x |-> pointerAt[1] - iconDragOffset.x, y |-> pointerAt[2] - iconDragOffset.y]

\* the drag point clamped to the viewport rectangle
ClampToViewport(p) ==
  LET maxX == innerWidth - GRID_SIZE_X
      maxY == innerHeight - GRID_SIZE_Y - FOOTER_HEIGHT
  IN [x |-> Max(0, Min(p.x, maxX)), y |-> Max(0, Min(p.y, maxY))]

\* (variant: the clamped point is committed without the snap)
ReleasePosition_Unsnapped == ClampToViewport(IconDragPoint)

\* handleMouseUp: the position committed on release
ReleasePosition ==
  LET clamped == ClampToViewport(IconDragPoint)
  IN snapToGrid(clamped.x, clamped.y)

IconDragEnabled == iconDraggable /\ hasInitialPosition

IconInit ==
  /\ iconDraggable \in BOOLEAN
  /\ hasInitialPosition \in BOOLEAN
  /\ \E initialPosition \in IconInitialPositions :
       iconPosition = IF hasInitialPosition
                      THEN snapToGrid(initialPosition.x, initialPosition.y)
                      ELSE [x |-> 0, y |-> 0]
  /\ dragPosition = iconPosition
  /\ snapPreview = iconPosition
  /\ iconIsDragging = FALSE
  /\ hasMoved = FALSE
  /\ iconDragOffset = [x |-> 0, y |-> 0]
  /\ clickTimeout = FALSE
  /\ iconListeners = 0
  /\ pendingTimers = 0
  /\ pointerAt \in IconPointerPoints
  /\ iconPointer = "idle"
  /\ movedInGesture = FALSE
  /\ singleClicks = 0
  /\ doubleClicks = 0
  /\ clickCandidates = 0
  /\ movedClicks = 0
  /\ iconGestures = 0

iconPropVars == <<iconDraggable, hasInitialPosition>>
iconCountVars == <<singleClicks, doubleClicks>>

\* onMouseDown of the icon button
Icon_handleMouseDown ==
  /\ IF ~iconDraggable \/ ~hasInitialPosition
     THEN UNCHANGED <<hasMoved, iconDragOffset, iconListeners>>
     ELSE /\ hasMoved' = FALSE
          /\ iconDragOffset' = [x |-> pointerAt[1] - iconPosition.x,
                                y |-> pointerAt[2] - iconPosition.y]
          /\ iconListeners' = iconListeners + 1
  /\ UNCHANGED <<iconPropVars, iconPosition, dragPosition, snapPreview,
                 iconIsDragging, clickTimeout, pendingTimers, iconCountVars>>

\* a document mousemove event at pointerAt': the session's handleMouseMove
Icon_documentMouseMove ==
  /\ IF iconListeners = 0
     THEN UNCHANGED <<iconIsDragging, hasMoved, dragPosition, snapPreview>>
     ELSE LET newPoint == [x |-> pointerAt'[1] - iconDragOffset.x,
                           y |-> pointerAt'[2] - iconDragOffset.y]
              clamped == ClampToViewport(newPoint)
          IN /\ iconIsDragging' = TRUE
             /\ hasMoved' = TRUE
             /\ dragPosition' = newPoint
             /\ snapPreview' = snapToGrid(clamped.x, clamped.y)
  /\ UNCHANGED <<iconPropVars, iconPosition, iconDragOffset, clickTimeout,
                 iconListeners, pendingTimers, iconCountVars>>

\* a document mouseup event: the session's handleMouseUp
Icon_documentMouseUp ==
  /\ IF iconListeners = 0
     THEN UNCHANGED <<iconPosition, dragPosition, snapPreview, iconIsDragging,
                      iconListeners>>
     ELSE /\ iconPosition' = ReleasePosition
          /\ dragPosition' = ReleasePosition
          /\ snapPreview' = ReleasePosition
          /\ iconIsDragging' = FALSE
          /\ iconListeners' = 0
  /\ UNCHANGED <<iconPropVars, hasMoved, iconDragOffset, clickTimeout,
                 pendingTimers, iconCountVars>>

\* (variant: the double click does not cancel the pending timer)
handleClick_NoClearTimeout ==
  /\ IF hasMoved
     THEN UNCHANGED <<clickTimeout, pendingTimers, iconCountVars>>
     ELSE IF clickTimeout
     THEN /\ clickTimeout' = FALSE
          /\ doubleClicks' = doubleClicks + 1
          /\ UNCHANGED <<pendingTimers, singleClicks>>
     ELSE /\ clickTimeout' = TRUE
          /\ pendingTimers' = pendingTimers + 1
          /\ UNCHANGED iconCountVars
  /\ UNCHANGED <<iconPropVars, iconPosition, dragPosition, snapPreview,
                 iconIsDragging, hasMoved, iconDragOffset, iconListeners>>

\* (variant: the click handler does not look at hasMoved)
handleClick_IgnoresHasMoved ==
  /\ IF clickTimeout
     THEN /\ pendingTimers' = pendingTimers - 1
          /\ clickTimeout' = FALSE
          /\ doubleClicks' = doubleClicks + 1
          /\ UNCHANGED singleClicks
     ELSE /\ clickTimeout' = TRUE
          /\ pendingTimers' = pendingTimers + 1
          /\ UNCHANGED iconCountVars
  /\ UNCHANGED <<iconPropVars, iconPosition, dragPosition, snapPreview,
                 iconIsDragging, hasMoved, iconDragOffset, iconListeners>>

\* onClick of the icon button
handleClick ==
  /\ IF hasMoved
     THEN UNCHANGED <<clickTimeout, pendingTimers, iconCountVars>>
     ELSE IF clickTimeout
     THEN /\ pendingTimers' = pendingTimers - 1
          /\ clickTimeout' = FALSE
          /\ doubleClicks' = doubleClicks + 1
          /\ UNCHANGED singleClicks
     ELSE /\ clickTimeout' = TRUE
          /\ pendingTimers' = pendingTimers + 1
          /\ UNCHANGED iconCountVars
  /\ UNCHANGED <<iconPropVars, iconPosition, dragPosition, snapPreview,
                 iconIsDragging, hasMoved, iconDragOffset, iconListeners>>

\* the 250 ms timer set by handleClick expires
clickTimeoutExpires ==
  /\ pendingTimers > 0
  /\ pendingTimers' = pendingTimers - 1
  /\ clickTimeout' = FALSE
  /\ singleClicks' = singleClicks + 1
  /\ UNCHANGED <<iconPropVars, iconPosition, dragPosition, snapPreview,
                 iconIsDragging, hasMoved, iconDragOffset, iconListeners,
                 doubleClicks>>

(* ------------------------------------------------------------------ *)
(* Events reaching the icon                                           *)
(* ------------------------------------------------------------------ *)
IconMouseDown ==
  /\ iconPointer = "idle"
  /\ iconGestures < MaxIconGestures
  /\ Icon_handleMouseDown
  /\ iconPointer' = "down"
  /\ movedInGesture' = FALSE
  /\ iconGestures' = iconGestures + 1
  /\ UNCHANGED <<pointerAt, clickCandidates, movedClicks, viewportVars>>
  /\ UNCHANGED <<windowVars, snapVars, deskVars, optimizerVars>>

IconMouseMove ==
  \E point \in IconPointerPoints :
    /\ iconPointer = "down"
    /\ pointerAt' = point
    /\ Icon_documentMouseMove
    /\ movedInGesture' = TRUE
    /\ UNCHANGED <<iconPointer, clickCandidates, movedClicks, iconGestures,
                   viewportVars>>
    /\ UNCHANGED <<windowVars, snapVars, deskVars, optimizerVars>>

\* the pointer moves while no button is held
PointerTravel ==
  \E point \in IconPointerPoints :
    /\ iconPointer = "idle"
    /\ point # pointerAt
    /\ pointerAt' = point
    /\ Icon_documentMouseMove
    /\ UNCHANGED <<iconPointer, movedInGesture, clickCandidates, movedClicks,
                   iconGestures, viewportVars>>
    /\ UNCHANGED <<windowVars, snapVars, deskVars, optimizerVars>>

IconMouseUp ==
  /\ iconPointer = "down"
  /\ Icon_documentMouseUp
  /\ iconPointer' = "released"
  /\ UNCHANGED <<pointerAt, movedInGesture, clickCandidates, movedClicks,
                 iconGestures, viewportVars>>
  /\ UNCHANGED <<windowVars, snapVars, deskVars, optimizerVars>>

IconClick ==
  /\ iconPointer = "released"
  /\ handleClick
  /\ iconPointer' = "idle"
  /\ clickCandidates' = IF movedInGesture THEN clickCandidates ELSE clickCandidates + 1
  /\ movedClicks' = IF movedInGesture THEN movedClicks + 1 ELSE movedClicks
  /\ UNCHANGED <<pointerAt, movedInGesture, iconGestures, viewportVars>>
  /\ UNCHANGED <<windowVars, snapVars, deskVars, optimizerVars>>

ClickTimeoutExpires ==
  /\ clickTimeoutExpires
  /\ UNCHANGED <<pointerAt, iconPointer, movedInGesture, clickCandidates,
                 movedClicks, iconGestures, viewportVars>>
  /\ UNCHANGED <<windowVars, snapVars, deskVars, optimizerVars>>

IconViewportResize ==
  \E viewport \in IconViewports :
    /\ viewportResize(viewport[1], viewport[2])
    /\ UNCHANGED <<windowVars, iconVars, snapVars, deskVars, optimizerVars>>

IconNext ==
  \/ IconMouseDown
  \/ IconMouseMove
  \/ PointerTravel
  \/ IconMouseUp
  \/ IconClick
  \/ ClickTimeoutExpires
  \/ IconViewportResize

(* ------------------------------------------------------------------ *)
(* snapToGrid as a function                                           *)
(* ------------------------------------------------------------------ *)
\* arguments: cell corners, cell midpoints and their neighbours, from two
\* half cells below the origin of the grid up to MaxCells cells
SnapArgs(cell, offset) ==
  {offset + (cell \div 2) * i + d : i \in (0 - 2)..(2 * MaxCells), d \in {0 - 1, 0, 1}}

SnapInit ==
  /\ snapArg \in [x : SnapArgs(GRID_SIZE_X, GRID_OFFSET_X),
                  y : SnapArgs(GRID_SIZE_Y, GRID_OFFSET_Y)]
  /\ snapOnce = snapArg
  /\ snapTwice = snapArg
  /\ snapStage = 0

SnapIdle ==
  /\ snapArg = [x |-> 0, y |-> 0]
  /\ snapOnce = snapArg
  /\ snapTwice = snapArg
  /\ snapStage = 0

SnapFirst ==
  /\ snapStage = 0
  /\ snapOnce' = snapToGrid(snapArg.x, snapArg.y)
  /\ snapStage' = 1
  /\ UNCHANGED <<snapArg, snapTwice>>
  /\ UNCHANGED <<windowVars, viewportVars, iconVars, deskVars, optimizerVars>>

SnapSecond ==
  /\ snapStage = 1
  /\ snapTwice' = snapToGrid(snapOnce.x, snapOnce.y)
  /\ snapStage' = 2
  /\ UNCHANGED <<snapArg, snapOnce>>
  /\ UNCHANGED <<windowVars, viewportVars, iconVars, deskVars, optimizerVars>>

SnapNext == SnapFirst \/ SnapSecond

(* ------------------------------------------------------------------ *)
(* The desktop surface: open windows and z-order                      *)
(* ------------------------------------------------------------------ *)
Windows == 1..MaxWindows

SetMax(S) == IF S = {} THEN 0 ELSE CHOOSE m \in S : \A n \in S : n <= m

DesktopInit ==
  /\ openWindows = {}
  /\ zIndexOf = [w \in Windows |-> 0]
  /\ topZ = 0
  /\ everAssigned = {}
  /\ lastFocused = 0

\* the desktop raises a window: the counter advances and the window gets it
bringToFront(w) ==
  /\ topZ' = topZ + 1
  /\ zIndexOf' = [zIndexOf EXCEPT ![w] = topZ + 1]

\* (variant: the window's click handler does not notify the desktop)
handleWindowClick_NoNotify(w) ==
  /\ w \in openWindows
  /\ UNCHANGED <<topZ, zIndexOf>>

\* onClick of window w: onFocus?.()
handleWindowClick(w) ==
  /\ w \in openWindows
  /\ bringToFront(w)

\* the desktop opens window w in front
openWindow(w) ==
  /\ w \notin openWindows
  /\ openWindows' = openWindows \cup {w}
  /\ bringToFront(w)

\* onClose of window w: the desktop discards it, the others keep their zIndex
closeWindow(w) ==
  /\ w \in openWindows
  /\ openWindows' = openWindows \ {w}
  /\ zIndexOf' = [zIndexOf EXCEPT ![w] = 0]
  /\ UNCHANGED topZ

OpenWindow ==
  \E w \in Windows :
    /\ topZ < MaxFocusEvents
    /\ openWindow(w)
    /\ everAssigned' = everAssigned \cup {zIndexOf'[w]}
    /\ lastFocused' = w
    /\ UNCHANGED <<windowVars, viewportVars, iconVars, snapVars, optimizerVars>>

WindowClick ==
  \E w \in Windows :
    /\ topZ < MaxFocusEvents
    /\ handleWindowClick(w)
    /\ everAssigned' = everAssigned \cup {zIndexOf'[w]}
    /\ lastFocused' = w
    /\ UNCHANGED openWindows
    /\ UNCHANGED <<windowVars, viewportVars, iconVars, snapVars, optimizerVars>>

CloseWindow ==
  \E w \in Windows :
    /\ closeWindow(w)
    /\ lastFocused' = IF lastFocused = w THEN 0 ELSE lastFocused
    /\ UNCHANGED everAssigned
    /\ UNCHANGED <<windowVars, viewportVars, iconVars, snapVars, optimizerVars>>

DesktopNext == OpenWindow \/ WindowClick \/ CloseWindow

(* ------------------------------------------------------------------ *)
(* The prompt optimizer: PromptOptimizerContent                       *)
(* ------------------------------------------------------------------ *)
\* a prompt is a sequence of characters: a blank and a letter
PromptChars == {" ", "a"}
RECURSIVE PromptsOfLen(_)
PromptsOfLen(n) ==
  IF n = 0 THEN {<<>>}
  ELSE {Append(p, ch) : p \in PromptsOfLen(n - 1), ch \in PromptChars}
Prompts == UNION {PromptsOfLen(n) : n \in 0..MaxPromptLen}

\* the generation types the selector offers (two of the five)
PromptTypes == {"text", "image"}
\* optimizedPrompt of a successful response
ResponseTexts == {"optimized A", "optimized B"}
\* the error field of a failed response's body (absent, or a message)
ErrorBodies == {"", "Rate limit exceeded"}
\* message of the error fetch rejects with when the request cannot be made
NetworkErrors == {"Failed to fetch"}
NoError == "null"
NoWriter == [kind |-> "none", startedAt |-> 0]

\* String.prototype.trim: leading and trailing blanks removed
RECURSIVE trimStart(_)
trimStart(p) ==
  IF p = <<>> THEN <<>>
  ELSE IF Head(p) = " " THEN trimStart(Tail(p)) ELSE p
RECURSIVE trimEnd(_)
trimEnd(p) ==
  IF p = <<>> THEN <<>>
  ELSE IF p[Len(p)] = " " THEN trimEnd(SubSeq(p, 1, Len(p) - 1)) ELSE p
trim(p) == trimEnd(trimStart(p))

\* optimizePrompt: error.error || 'Failed to optimize prompt'
ErrorMessage(body) == IF body = "" THEN "Failed to optimize prompt" ELSE body
\* every message handleOptimize's catch block can see
FailureMessages == {ErrorMessage(body) : body \in ErrorBodies} \cup NetworkErrors

OptimizerInit ==
  /\ inputPrompt = <<>>
  /\ outputPrompt = ""
  /\ selectedType = "text"
  /\ isProcessing = FALSE
  /\ error = NoError
  /\ inFlight = {}
  /\ clears = 0
  /\ outputWriter = NoWriter
  /\ optimizerEvents = 0

\* the Optimize button: disabled={!inputPrompt.trim() || isProcessing}
OptimizeEnabled == trim(inputPrompt) # <<>> /\ ~isProcessing

\* handleOptimize up to its await: the request is sent with the prompt and the
\* type of this render (startedAt records how many Clears preceded it)
handleOptimize ==
  IF trim(inputPrompt) = <<>>
  THEN UNCHANGED <<inputPrompt, outputPrompt, selectedType, isProcessing, error, inFlight>>
  ELSE /\ isProcessing' = TRUE
       /\ error' = NoError
       /\ inFlight' = inFlight \cup {[prompt |-> inputPrompt, type |-> selectedType,
                                      startedAt |-> clears]}
       /\ UNCHANGED <<inputPrompt, outputPrompt, selectedType>>

\* handleOptimize after its await, the request answered with optimizedPrompt
handleOptimize_resolved(request, optimized) ==
  /\ request \in inFlight
  /\ inFlight' = inFlight \ {request}
  /\ outputPrompt' = optimized
  /\ isProcessing' = FALSE
  /\ UNCHANGED <<inputPrompt, selectedType, error>>

\* handleOptimize after its await, optimizePrompt having thrown
handleOptimize_rejected(request, message) ==
  /\ request \in inFlight
  /\ inFlight' = inFlight \ {request}
  /\ error' = message
  /\ isProcessing' = FALSE
  /\ UNCHANGED <<inputPrompt, outputPrompt, selectedType>>

handleClear ==
  /\ inputPrompt' = <<>>
  /\ outputPrompt' = ""
  /\ error' = NoError
  /\ UNCHANGED <<selectedType, isProcessing, inFlight>>

OptimizerBudget ==
  /\ optimizerEvents < MaxOptimizerEvents
  /\ optimizerEvents' = optimizerEvents + 1

\* onChange of the prompt textarea
InputChange ==
  \E p \in Prompts :
    /\ OptimizerBudget
    /\ inputPrompt' = p
    /\ UNCHANGED <<outputPrompt, selectedType, isProcessing, error, inFlight>>
    /\ UNCHANGED <<clears, outputWriter>>
    /\ UNCHANGED <<windowVars, viewportVars, iconVars, snapVars, deskVars>>

\* onClick of a type button
SelectType ==
  \E type \in PromptTypes :
    /\ OptimizerBudget
    /\ selectedType' = type
    /\ UNCHANGED <<inputPrompt, outputPrompt, isProcessing, error, inFlight>>
    /\ UNCHANGED <<clears, outputWriter>>
    /\ UNCHANGED <<windowVars, viewportVars, iconVars, snapVars, deskVars>>

\* onClick of the Optimize button
OptimizeClick ==
  /\ OptimizeEnabled
  /\ OptimizerBudget
  /\ handleOptimize
  /\ UNCHANGED <<clears, outputWriter>>
  /\ UNCHANGED <<windowVars, viewportVars, iconVars, snapVars, deskVars>>

\* the endpoint answers a pending request with an optimized prompt
ResponseOk ==
  \E request \in inFlight, optimized \in ResponseTexts :
    /\ OptimizerBudget
    /\ handleOptimize_resolved(request, optimized)
    /\ outputWriter' = [kind |-> "response", startedAt |-> request.startedAt]
    /\ UNCHANGED clears
    /\ UNCHANGED <<windowVars, viewportVars, iconVars, snapVars, deskVars>>

\* a pending request fails: error payload, or no response at all
ResponseFailed ==
  \E request \in inFlight, message \in FailureMessages :
    /\ OptimizerBudget
    /\ handleOptimize_rejected(request, message)
    /\ UNCHANGED <<clears, outputWriter>>
    /\ UNCHANGED <<windowVars, viewportVars, iconVars, snapVars, deskVars>>

\* onClick of the Clear button
ClearClick ==
  /\ OptimizerBudget
  /\ handleClear
  /\ clears' = clears + 1
  /\ outputWriter' = [kind |-> "clear", startedAt |-> clears + 1]
  /\ UNCHANGED <<windowVars, viewportVars, iconVars, snapVars, deskVars>>

\* onChange of the output textarea, rendered only while outputPrompt is not empty
OutputChange ==
  \E text \in ResponseTexts \cup {""} :
    /\ outputPrompt # ""
    /\ text # outputPrompt
    /\ OptimizerBudget
    /\ outputPrompt' = text
    /\ outputWriter' = [kind |-> "edit", startedAt |-> clears]
    /\ UNCHANGED <<inputPrompt, selectedType, isProcessing, error, inFlight, clears>>
    /\ UNCHANGED <<windowVars, viewportVars, iconVars, snapVars, deskVars>>

OptimizerNext ==
  \/ InputChange
  \/ SelectType
  \/ OptimizeClick
  \/ ResponseOk
  \/ ResponseFailed
  \/ ClearClick
  \/ OutputChange

(* ------------------------------------------------------------------ *)
(* Specifications                                                     *)
(* ------------------------------------------------------------------ *)
\* no window on the desktop
WindowIdle ==
  /\ draggable = FALSE /\ resizable = FALSE
  /\ canMinimize = FALSE /\ canMaximize = FALSE
  /\ isMobile = FALSE
  /\ position = [x |-> 0, y |-> 0]
  /\ size = NoSize
  /\ isDragging = FALSE /\ isResizing = "null"
  /\ isMinimized = FALSE /\ isMaximized = FALSE
  /\ preMaximizeState = [position |-> position, size |-> NoSize, wasSet |-> FALSE]
  /\ dragOffset = [x |-> 0, y |-> 0]
  /\ resizeStart = [x |-> 0, y |-> 0, width |-> 0, height |-> 0, posX |-> 0, posY |-> 0]
  /\ mouseDownIsMobile = FALSE /\ resizeStartIsMobile = FALSE
  /\ listeners = <<>>
  /\ focusNotified = FALSE
  /\ events = 0
  /\ roundTrip = NoTrip
  /\ mounted = TRUE
  /\ lastMove = NoMove
  /\ lastDown = "none"

\* no icon on the desktop
IconIdle ==
  /\ iconDraggable = FALSE /\ hasInitialPosition = FALSE
  /\ iconPosition = [x |-> 0, y |-> 0]
  /\ dragPosition = iconPosition /\ snapPreview = iconPosition
  /\ iconIsDragging = FALSE /\ hasMoved = FALSE
  /\ iconDragOffset = [x |-> 0, y |-> 0]
  /\ clickTimeout = FALSE
  /\ iconListeners = 0 /\ pendingTimers = 0
  /\ pointerAt = <<0, 0>>
  /\ iconPointer = "idle" /\ movedInGesture = FALSE
  /\ singleClicks = 0 /\ doubleClicks = 0
  /\ clickCandidates = 0 /\ movedClicks = 0 /\ iconGestures = 0

\* one MacWindow under pointer, button and viewport events
InitWindow == ViewportInit /\ WindowInit /\ IconIdle /\ SnapIdle /\ DesktopInit /\ OptimizerInit
SpecWindow == InitWindow /\ [][WindowNext]_vars

\* one DesktopIcon under pointer, timer and viewport events
InitIcon ==
  /\ \E viewport \in IconViewports : innerWidth = viewport[1] /\ innerHeight = viewport[2]
  /\ IconInit
  /\ WindowIdle /\ SnapIdle /\ DesktopInit /\ OptimizerInit
SpecIcon == InitIcon /\ [][IconNext]_vars

\* snapToGrid applied to an argument, then to its own result
InitSnap == ViewportInit /\ SnapInit /\ WindowIdle /\ IconIdle /\ DesktopInit /\ OptimizerInit
SpecSnap == InitSnap /\ [][SnapNext]_vars

\* the desktop opening, focusing and closing windows
InitDesktop == ViewportInit /\ DesktopInit /\ WindowIdle /\ IconIdle /\ SnapIdle /\ OptimizerInit
SpecDesktop == InitDesktop /\ [][DesktopNext]_vars

\* the prompt optimizer under edits, clicks and responses of the endpoint
InitOptimizer ==
  /\ innerWidth = DRAG_MARGIN + StepX /\ innerHeight = DRAG_MARGIN + MENU_BAR_HEIGHT + StepY
  /\ OptimizerInit
  /\ WindowIdle /\ IconIdle /\ SnapIdle /\ DesktopInit
SpecOptimizer == InitOptimizer /\ [][OptimizerNext]_vars

(* ------------------------------------------------------------------ *)
(* Properties of the window                                           *)
(* ------------------------------------------------------------------ *)

\* C1: in normal viewport mode the on-screen top of a draggable window
\* (MENU_BAR_HEIGHT when maximized, position.y otherwise) is never above the
\* menu bar, from the moment the window is opened.
C1_TopNeverAboveMenuBar ==
  (draggable /\ ~isMobile) => EffectiveTop >= MENU_BAR_HEIGHT

\* C4: a maximize directly followed by a restore leaves the window
\* non-maximized with exactly the position and size it had before.
C4_MaximizeRestoreRoundTrip ==
  roundTrip.stage = 2 =>
    /\ ~isMaximized
    /\ position = roundTrip.position
    /\ size = roundTrip.size

\* a round trip of a window whose size had been set by a resize and which
\* did not sit at the maximize anchor
C4_Witness ==
  /\ roundTrip.stage = 2
  /\ size # NoSize
  /\ position # [x |-> 0, y |-> MENU_BAR_HEIGHT]

\* C5: while the window is maximized, from the maximize transition on and
\* including a title-bar drag and a minimize, the stored position and size do
\* not change.
C5_StoredGeometryUntouchedWhileMaximized ==
  [][(isMaximized' \/ (isMaximized /\ isMinimized'))
       => (position' = position /\ size' = size)]_vars

\* C6: the window is never minimized and maximized at once.
C6_MinimizedMaximizedExclusive == ~(isMinimized /\ isMaximized)

\* minimized straight from the maximized state
C6_Witness ==
  /\ isMinimized
  /\ ~isMaximized
  /\ preMaximizeState.wasSet
  /\ events = 2

\* C7: a size that is set (not {0,0}) is never below the minimum.
C7_SizeNeverBelowMinimum ==
  size = NoSize \/ (size.width >= minWidth /\ size.height >= minHeight)

\* a south-east resize whose pointer asked for less than the minimum
C7_Witness ==
  /\ listeners # <<>>
  /\ isResizing = "se"
  /\ resizeStart.width > minWidth
  /\ resizeStart.height > minHeight
  /\ size = [width |-> minWidth, height |-> minHeight]

(* ------------------------------------------------------------------ *)
(* Properties of the icon                                             *)
(* ------------------------------------------------------------------ *)
GridAligned(p) ==
  /\ p.x >= GRID_OFFSET_X /\ (p.x - GRID_OFFSET_X) % GRID_SIZE_X = 0
  /\ p.y >= GRID_OFFSET_Y /\ (p.y - GRID_OFFSET_Y) % GRID_SIZE_Y = 0

WithinViewport(p) ==
  /\ 0 <= p.x /\ p.x <= innerWidth - GRID_SIZE_X
  /\ 0 <= p.y /\ p.y <= innerHeight - GRID_SIZE_Y - FOOTER_HEIGHT

\* C2: the stored position of an icon created with an initialPosition is
\* grid-aligned in every state, at creation and after every drag and release.
C2_StoredPositionGridAligned ==
  hasInitialPosition => GridAligned(iconPosition)

\* released after a drag, while the live drag position had left the grid
C2_Witness ==
  /\ IconDragEnabled
  /\ iconPointer = "released"
  /\ movedInGesture
  /\ iconGestures >= 2
  /\ iconPosition # [x |-> GRID_OFFSET_X, y |-> GRID_OFFSET_Y]

\* C3: the position committed on pointer-up lies within the clamp rectangle
\* [0, innerWidth - GRID_SIZE_X] x [0, innerHeight - GRID_SIZE_Y - 40].
C3_CommittedWithinViewport ==
  [][(IconDragEnabled /\ iconPointer = "down" /\ iconPointer' = "released")
       => WithinViewport(iconPosition')]_vars

\* C8: every click candidate is accounted for by exactly one fired action (a
\* single click, half of a double click) or by the one pending timer; a
\* candidate that arrives while the timer is pending fires the double-click
\* action alone and an expiring timer fires the single-click action alone.
C8_ClickAccounting ==
  /\ pendingTimers <= 1
  /\ clickTimeout <=> (pendingTimers = 1)
  /\ (IconDragEnabled \/ movedClicks = 0) =>
       clickCandidates = singleClicks + 2 * doubleClicks + pendingTimers

C8_ClickDisambiguation ==
  /\ []C8_ClickAccounting
  /\ [][/\ (iconPointer = "released" /\ iconPointer' = "idle"
            /\ ~movedInGesture /\ pendingTimers = 1)
          => /\ doubleClicks' = doubleClicks + 1
             /\ singleClicks' = singleClicks
             /\ pendingTimers' = 0
        /\ (iconPointer' = iconPointer /\ pendingTimers' < pendingTimers)
          => /\ singleClicks' = singleClicks + 1
             /\ doubleClicks' = doubleClicks]_vars

\* a double click and, after it, a single click have both fired
C8_Witness ==
  /\ IconDragEnabled
  /\ doubleClicks = 1
  /\ singleClicks = 1
  /\ clickCandidates = 3
  /\ pendingTimers = 0

(* ------------------------------------------------------------------ *)
(* Properties of the desktop and of snapToGrid                        *)
(* ------------------------------------------------------------------ *)

\* C9: a focused (or opened) window gets the largest zIndex ever assigned plus
\* one, so the window focused last is strictly above every other open window,
\* no two open windows share a zIndex and no zIndex is assigned twice.
C9_TopmostAndDistinct ==
  /\ \A v, w \in openWindows : v # w => zIndexOf[v] # zIndexOf[w]
  /\ lastFocused \in openWindows =>
       \A v \in openWindows \ {lastFocused} : zIndexOf[v] < zIndexOf[lastFocused]

C9_MonotonicZOrder ==
  /\ []C9_TopmostAndDistinct
  /\ [][\A w \in openWindows' :
          \/ w \in openWindows /\ zIndexOf'[w] = zIndexOf[w]
          \/ zIndexOf'[w] = SetMax(everAssigned) + 1 /\ lastFocused' = w]_vars

\* two windows are open, the one focused last holds the counter's value and
\* the other one lies more than one step below it
C9_Witness ==
  /\ Cardinality(openWindows) = 2
  /\ topZ = MaxFocusEvents
  /\ lastFocused \in openWindows
  /\ zIndexOf[lastFocused] = topZ
  /\ \E v \in openWindows : zIndexOf[v] < topZ - 1

\* C10: snapToGrid applied to its own result returns that result.
C10_SnapIdempotent ==
  snapStage = 2 => snapTwice = snapOnce

\* a cell midpoint left of the grid's first row, snapped twice
C10_Witness ==
  /\ snapStage = 2
  /\ snapArg.x = GRID_OFFSET_X + GRID_SIZE_X \div 2
  /\ snapArg.y < 0
  /\ snapOnce # snapArg

(* ------------------------------------------------------------------ *)
(* Properties of the window's sessions                                *)
(* ------------------------------------------------------------------ *)
\* a session of the given kind / with a direction in the given set is registered
DragSessionActive ==
  \E i \in 1..Len(listeners) : listeners[i].kind = "drag"
ResizeSessionActive(directions) ==
  \E i \in 1..Len(listeners) :
    listeners[i].kind = "resize" /\ listeners[i].direction \in directions

\* C11: after every move event of a west-edge resize session (w, nw, sw) with
\* horizontal delta dx from the session start, width = startWidth - dx and
\* position.x = startX + dx when startWidth - dx >= minWidth, and both have
\* their session-start values otherwise; the east edge stays where it was.
C11_WestResizeKeepsEastEdge ==
  (lastMove # NoMove /\ ResizeSessionActive({"w", "nw", "sw"})) =>
    LET dx == lastMove[1] - resizeStart.x
    IN /\ IF resizeStart.width - dx >= minWidth
          THEN size.width = resizeStart.width - dx /\ position.x = resizeStart.posX + dx
          ELSE size.width = resizeStart.width /\ position.x = resizeStart.posX
       /\ position.x + size.width = resizeStart.posX + resizeStart.width

\* the height on screen: the stored height when set, the session's start
\* rect otherwise
ShownHeight(sz) == IF sz.height > 0 THEN sz.height ELSE resizeStart.height

\* C12: a move event of a north-edge resize session (n, ne, nw) whose candidate
\* posY is above the menu bar, or whose candidate height is below minHeight,
\* leaves height and position.y as they were immediately before the event
\* (stated for a window whose only registered session is that one).
C12_NorthRejectionKeepsFrame ==
  [][(lastMove' # NoMove /\ Len(listeners) = 1
      /\ ResizeSessionActive({"n", "ne", "nw"})
      /\ ~NorthAccepted(resizeStart.height, resizeStart.posY, lastMove'[2] - resizeStart.y))
       => (ShownHeight(size') = ShownHeight(size) /\ position'.y = position.y)]_vars

\* C13: in every state with no active session, and in every state whose
\* window is unmounted, no session listener is registered on the document.
C13_ListenersReleased ==
  ((~isDragging /\ isResizing = "null") \/ ~mounted) => listeners = <<>>

\* C14: while the window is maximized or the viewport is compact, no step
\* starts a drag session, registers a document listener or sends a focus
\* notification, and no move event changes the stored position.
C14_NoDragWhileMaximizedOrCompact ==
  [][(isMaximized \/ isMobile) =>
       /\ Len(listeners') <= Len(listeners)
       /\ isDragging' => isDragging
       /\ focusNotified' => focusNotified
       /\ lastMove' # NoMove => position' = position]_vars

\* C15: at most one session (drag or resize) is registered per window, and a
\* pointer-down while a session is registered does not start a second one.
C15_AtMostOneSession ==
  Len(listeners) <= 1

\* the position the centering rule gives a window of the given width and height
CenteredFor(width, height) ==
  [x |-> Max(CENTER_MIN_X, (innerWidth - width) \div 2),
   y |-> Max(MENU_BAR_HEIGHT + 8, (innerHeight - height) \div 2)]

\* the widths and heights a window can have on screen in normal viewport mode
NormalModeSizes ==
  IF size # NoSize THEN {<<size.width, size.height>>}
  ELSE IntrinsicSizes \cup {<<Max(minWidth, d[1]), Max(minHeight, d[2])>> : d \in IntrinsicSizes}

\* C16 (as stated): on every change of viewport class, in both directions, a
\* draggable window's stored position becomes the centered position for its
\* size; a non-draggable window keeps its position.
C16_RecenteredOnEveryClassChange ==
  [][(isMobile' # isMobile) =>
       IF ~draggable THEN position' = position
       ELSE IF isMobile' THEN position' = CenteredPosition
       ELSE \E d \in NormalModeSizes : position' = CenteredFor(d[1], d[2])]_vars

\* C16 (amended): on a change from normal to compact a draggable window's
\* stored position becomes the centered position; on a change from compact to
\* normal it keeps the position it had, as does a non-draggable window in
\* both directions.
C16_RecenteredOnChangeToCompact ==
  [][(isMobile' # isMobile) =>
       IF draggable /\ isMobile' THEN position' = CenteredPosition
       ELSE position' = position]_vars

\* a draggable window opened away from the centered position went to compact
\* mode and back to normal mode, and sits at the centered position
C16_Witness ==
  /\ draggable
  /\ ~isMobile
  /\ events = 2
  /\ preMaximizeState.position # CenteredPosition
  /\ ~preMaximizeState.wasSet
  /\ position = CenteredPosition

\* C18: after every move event of a drag session the stored position lies in
\* [0, innerWidth - 100] x [MENU_BAR_HEIGHT, innerHeight - 100].
C18_DragPositionClamped ==
  (lastMove # NoMove /\ DragSessionActive) =>
    /\ 0 <= position.x /\ position.x <= innerWidth - DRAG_MARGIN
    /\ MENU_BAR_HEIGHT <= position.y /\ position.y <= innerHeight - DRAG_MARGIN

(* ------------------------------------------------------------------ *)
(* Properties of the icon's gestures                                  *)
(* ------------------------------------------------------------------ *)

\* C17 (as stated): the click event that ends a pointer-down / pointer-up
\* sequence on an icon during which the pointer moved fires neither onClick nor
\* onDoubleClick and neither starts nor cancels the timer.
C17_MovedSequenceIsNoClick ==
  [][(movedInGesture /\ iconPointer = "released" /\ iconPointer' = "idle")
       => /\ singleClicks' = singleClicks
          /\ doubleClicks' = doubleClicks
          /\ pendingTimers' = pendingTimers
          /\ clickTimeout' = clickTimeout]_vars

\* C17 (amended): on an icon whose drag is enabled (draggable, with an
\* initialPosition), the click event that ends a pointer-down / pointer-up
\* sequence during which a pointer-move was received fires neither onClick nor
\* onDoubleClick and neither starts nor cancels the timer.
C17_MovedGestureIsNoClick ==
  [][(IconDragEnabled /\ movedInGesture
      /\ iconPointer = "released" /\ iconPointer' = "idle")
       => /\ singleClicks' = singleClicks
          /\ doubleClicks' = doubleClicks
          /\ pendingTimers' = pendingTimers
          /\ clickTimeout' = clickTimeout]_vars

\* a moved gesture ended with its click while the timer of an earlier click
\* candidate was pending, and the timer is still pending
C17_Witness ==
  /\ IconDragEnabled
  /\ iconPointer = "idle"
  /\ movedInGesture
  /\ movedClicks = 1
  /\ clickCandidates = 1
  /\ pendingTimers = 1
  /\ singleClicks = 0
  /\ doubleClicks = 0

\* C19: a pointer-down / pointer-up sequence on an icon with no pointer-move in
\* between leaves the icon's stored position unchanged.
C19_ClickKeepsPosition ==
  [][(iconPointer = "down" /\ iconPointer' = "released" /\ ~movedInGesture)
       => iconPosition' = iconPosition]_vars

\* C20: a pointer-down on the title bar starts a drag session exactly when the
\* window is draggable and the viewport is in normal mode at that moment.
C20_DragStartFollowsCurrentMode ==
  lastDown = "title" =>
    ((draggable /\ ~isMobile) <=>
       (isDragging /\ focusNotified /\ listeners # <<>>
        /\ listeners[Len(listeners)].kind = "drag"))

(* ------------------------------------------------------------------ *)
(* Properties of the prompt optimizer                                 *)
(* ------------------------------------------------------------------ *)
\* C21: Clear is not undone by a pending optimize request: outputPrompt is only
\* ever written by the response of a request started after the most recent
\* Clear, and isProcessing is false whenever no request is in flight.
C21_ClearNotUndoneByPendingRequest ==
  /\ outputWriter.kind = "response" => outputWriter.startedAt = clears
  /\ inFlight = {} => ~isProcessing

====
